---- MODULE Spec2Model ----
(***************************************************************************)
(* Model of arjunx: the worker-pool pipeline of src/main.go (main,         *)
(* processURL) and of the second entry point src/unnamed/part_000 (main,   *)
(* extractParamsFromURL, createRequestWithCustomHeaders), and the          *)
(* parameter extraction of both (extractQueryParamsFromHTML).              *)
(*                                                                         *)
(* Strings are sequences of one-character strings, so that trimming,       *)
(* splitting, escaping and URL parsing are computed, not assumed.          *)
(***************************************************************************)
EXTENDS Integers, Sequences, FiniteSets, Bags, TLC

(***************************************************************************)
(* Bounds of the model.                                                    *)
(***************************************************************************)
MaxLines == 2
MaxWorkers == 2
MaxElems == 2

(***************************************************************************)
(* Strings.                                                                *)
(***************************************************************************)
Letters ==
    {"a", "b", "c", "d", "e", "f", "g", "h", "i", "j", "k", "l", "m",
     "n", "o", "p", "q", "r", "s", "t", "u", "v", "w", "x", "y", "z",
     "A", "B", "C", "D", "E", "F", "G", "H", "I", "J", "K", "L", "M",
     "N", "O", "P", "Q", "R", "S", "T", "U", "V", "W", "X", "Y", "Z"}
Digits == {"0", "1", "2", "3", "4", "5", "6", "7", "8", "9"}
HexDigits == Digits \cup {"a", "b", "c", "d", "e", "f", "A", "B", "C", "D", "E", "F"}

\* the printable ASCII characters, in code order from 32 (space) to 126
\* (code 96, the grave accent, is spelled out)
Ascii ==
    <<" ", "!", "\"", "#", "$", "%", "&", "'", "(", ")", "*", "+",
      ",", "-", ".", "/", "0", "1", "2", "3", "4", "5", "6", "7",
      "8", "9", ":", ";", "<", "=", ">", "?", "@", "A", "B", "C",
      "D", "E", "F", "G", "H", "I", "J", "K", "L", "M", "N", "O",
      "P", "Q", "R", "S", "T", "U", "V", "W", "X", "Y", "Z", "[",
      "\\", "]", "^", "_", "GRAVE", "a", "b", "c", "d", "e", "f", "g",
      "h", "i", "j", "k", "l", "m", "n", "o", "p", "q", "r", "s",
      "t", "u", "v", "w", "x", "y", "z", "{", "|", "}", "~">>

FUZZ == <<"F", "U", "Z", "Z">>

IsSpace(c) == c \in {" ", "\t", "\n", "\r"}

RECURSIVE TrimLeft(_)
TrimLeft(s) ==
    IF s # <<>> /\ IsSpace(Head(s)) THEN TrimLeft(Tail(s)) ELSE s

RECURSIVE TrimRight(_)
TrimRight(s) ==
    IF s # <<>> /\ IsSpace(s[Len(s)]) THEN TrimRight(SubSeq(s, 1, Len(s) - 1)) ELSE s

\* strings.TrimSpace
TrimSpace(s) == TrimRight(TrimLeft(s))

\* strings.Index for a one-character separator: 0 when absent
RECURSIVE IndexFrom(_, _, _)
IndexFrom(s, c, i) ==
    IF i > Len(s) THEN 0
    ELSE IF s[i] = c THEN i
    ELSE IndexFrom(s, c, i + 1)

Index(s, c) == IndexFrom(s, c, 1)

Contains(s, c) == Index(s, c) # 0

cutAt(s, i) ==
    IF i = 0 THEN [before |-> s, after |-> <<>>, found |-> FALSE]
    ELSE [before |-> SubSeq(s, 1, i - 1), after |-> SubSeq(s, i + 1, Len(s)), found |-> TRUE]

\* strings.Cut: the text before and after the first c, and whether c was found
Cut(s, c) == cutAt(s, Index(s, c))

\* strings.SplitN(s, sep, 2)
SplitN2(s, c) == IF Contains(s, c) THEN <<Cut(s, c).before, Cut(s, c).after>> ELSE <<s>>

HasPrefix(s, p) == Len(s) >= Len(p) /\ SubSeq(s, 1, Len(p)) = p

RECURSIVE Count(_, _)
Count(s, c) ==
    IF s = <<>> THEN 0
    ELSE (IF Head(s) = c THEN 1 ELSE 0) + Count(Tail(s), c)

(***************************************************************************)
(* Sample inputs: elements, documents, input lines and flag values.        *)
(***************************************************************************)
ElInputQ     == [tag |-> "input", attrs |-> <<<<"name", <<"q">>>>>>]
ElInputEmpty == [tag |-> "input", attrs |-> <<<<"name", <<"q">>>>, <<"value", <<>>>>>>]
ElInputBlank == [tag |-> "input", attrs |-> <<<<"name", <<"q">>>>, <<"value", <<" ">>>>>>]
ElInputPad   == [tag |-> "input", attrs |-> <<<<"name", <<"q">>>>, <<"value", <<" ", "1", " ">>>>>>]
ElLinkX      == [tag |-> "a", attrs |-> <<<<"href", <<"/", "s", "?", "x", "=", "1">>>>>>]
ElLinkBlank  == [tag |-> "a", attrs |-> <<<<"href", <<"/", "s", "?", "x", "=", "&", "q", "=", "+">>>>>>]
ElLinkBad    == [tag |-> "a", attrs |-> <<<<"href", <<":", "b", "a", "d">>>>>>]
ElForm       == [tag |-> "form", attrs |-> <<<<"action", <<"/", "s", "e", "a", "r", "c", "h", "?", "x", "=", "1">>>>>>]
ElBoth       == [tag |-> "a", attrs |-> <<<<"name", <<"q">>>>, <<"value", <<"5">>>>, <<"href", <<"/", "s", "?", "q", "=", "1">>>>>>]
ElDiv        == [tag |-> "div", attrs |-> <<<<"name", <<"d">>>>>>]
ElNoName     == [tag |-> "input", attrs |-> <<<<"name", <<>>>>, <<"value", <<"1">>>>>>]
ElSrc        == [tag |-> "input", attrs |-> <<<<"name", <<"i">>>>, <<"src", <<"/", "i", "?", "s", "=", "1">>>>>>]

Elements ==
    {ElInputQ, ElInputEmpty, ElInputBlank, ElInputPad, ElLinkX, ElLinkBlank,
     ElLinkBad, ElForm, ElBoth, ElDiv, ElNoName, ElSrc}

\* <form action="/search?x=1"><input name="q"></form>
DocForm  == [parseErr |-> FALSE, elems |-> <<ElForm, ElInputQ>>]
\* a page with no parameter
DocEmpty == [parseErr |-> FALSE, elems |-> <<ElDiv>>]
\* <a href="/s?x=1">
DocLink  == [parseErr |-> FALSE, elems |-> <<ElLinkX>>]

\* an input line with what the network and the file system answer for it:
\* net (client.Do), read (io.Copy of the body), doc (the body of the final
\* response), write (file.WriteString), redirects (the number of redirect
\* responses the servers give before the final response) and redirectDoc
\* (the body of the first redirect response)
LineWritten  ==
    [url |-> <<"h", "t", "t", "p", ":", "/", "/", "h", "/", "p", "?", "o", "=", "1", "#", "f">>,
     net |-> "ok", read |-> "ok", doc |-> DocForm, write |-> "ok",
     redirects |-> 0, redirectDoc |-> DocEmpty]
LineNoParams ==
    [url |-> <<"h", "t", "t", "p", ":", "/", "/", "h", "/", "e">>,
     net |-> "ok", read |-> "ok", doc |-> DocEmpty, write |-> "ok",
     redirects |-> 0, redirectDoc |-> DocEmpty]
LineNetErr   ==
    [url |-> <<"h", "t", "t", "p", ":", "/", "/", "h", "/", "n">>,
     net |-> "err", read |-> "ok", doc |-> DocEmpty, write |-> "ok",
     redirects |-> 0, redirectDoc |-> DocEmpty]
LineReadErr  ==
    [url |-> <<"h", "t", "t", "p", ":", "/", "/", "h", "/", "r">>,
     net |-> "ok", read |-> "err", doc |-> DocEmpty, write |-> "ok",
     redirects |-> 0, redirectDoc |-> DocEmpty]
LineBadURL   ==
    [url |-> <<":", "a">>,
     net |-> "ok", read |-> "ok", doc |-> DocLink, write |-> "ok",
     redirects |-> 0, redirectDoc |-> DocEmpty]
LineWriteErr ==
    [url |-> <<"h", "t", "t", "p", ":", "/", "/", "h", "/", "w">>,
     net |-> "ok", read |-> "ok", doc |-> DocLink, write |-> "err",
     redirects |-> 0, redirectDoc |-> DocEmpty]

LineSamples ==
    {LineWritten, LineNoParams, LineNetErr, LineReadErr, LineBadURL, LineWriteErr}

\* http.Client's default redirect policy (CheckRedirect left nil): the
\* request that would be the eleventh is refused, "stopped after 10 redirects"
StoppedAfter == 10

\* lines whose servers answer with redirects: two hops, and a chain longer
\* than the client follows
LineRedirect ==
    [url |-> <<"h", "t", "t", "p", ":", "/", "/", "h", "/", "m">>,
     net |-> "ok", read |-> "ok", doc |-> DocForm, write |-> "ok",
     redirects |-> 2, redirectDoc |-> DocLink]
LineLoop ==
    [url |-> <<"h", "t", "t", "p", ":", "/", "/", "h", "/", "l">>,
     net |-> "ok", read |-> "ok", doc |-> DocForm, write |-> "ok",
     redirects |-> StoppedAfter, redirectDoc |-> DocLink]

RedirectSamples == {LineWritten, LineNetErr, LineRedirect, LineLoop}

NoProxy   == <<>>
BadProxy  == <<":", "p">>
GoodHeader == <<"A", ":", " ", "b">>
BadHeader  == <<"X", "-", "F", "o", "o">>
NoBase    == <<>>
BaseURL   == <<"h", "t", "t", "p", ":", "/", "/", "b", "/">>

\* the texts the runs hand to url.Parse: the proxy, the input lines with and
\* without the base URL in front, and the attributes of the elements
URLTexts ==
    {BadProxy}
    \cup {b \o l.url : b \in {NoBase, BaseURL}, l \in LineSamples \cup RedirectSamples}
    \cup UNION {{e.attrs[k][2] : k \in 1..Len(e.attrs)} : e \in Elements}

\* the documents the runs hand to extractQueryParamsFromHTML
Documents ==
    {[parseErr |-> p, elems |-> s] :
        p \in BOOLEAN, s \in UNION {[1..n -> Elements] : n \in 0..MaxElems}}

(***************************************************************************)
(* net/url as the program uses it: url.Parse, URL.Query (url.ParseQuery),  *)
(* url.Values.Add / Encode and URL.String.                                 *)
(***************************************************************************)

\* every '%' is followed by two hexadecimal digits
RECURSIVE ValidEscapes(_)
ValidEscapes(s) ==
    IF s = <<>> THEN TRUE
    ELSE IF Head(s) = "%"
         THEN /\ Len(s) >= 3
              /\ s[2] \in HexDigits
              /\ s[3] \in HexDigits
              /\ ValidEscapes(SubSeq(s, 4, Len(s)))
         ELSE ValidEscapes(Tail(s))

\* url.getScheme: [err, scheme, rest]
RECURSIVE getSchemeFrom(_, _)
getSchemeFrom(rawURL, i) ==
    IF i > Len(rawURL) THEN [err |-> FALSE, scheme |-> <<>>, rest |-> rawURL]
    ELSE IF rawURL[i] \in Letters THEN getSchemeFrom(rawURL, i + 1)
    ELSE IF rawURL[i] \in Digits \cup {"+", "-", "."}
         THEN IF i = 1
              THEN [err |-> FALSE, scheme |-> <<>>, rest |-> rawURL]
              ELSE getSchemeFrom(rawURL, i + 1)
    ELSE IF rawURL[i] = ":"
         THEN IF i = 1
              THEN [err |-> TRUE, scheme |-> <<>>, rest |-> <<>>]
              ELSE [err |-> FALSE,
                    scheme |-> SubSeq(rawURL, 1, i - 1),
                    rest |-> SubSeq(rawURL, i + 1, Len(rawURL))]
    ELSE [err |-> FALSE, scheme |-> <<>>, rest |-> rawURL]

getScheme(rawURL) == getSchemeFrom(rawURL, 1)

NilURL ==
    [err |-> TRUE, scheme |-> <<>>, opaque |-> <<>>, host |-> <<>>,
     path |-> <<>>, forceQuery |-> FALSE, rawQuery |-> <<>>, fragment |-> <<>>]

\* url.parse, the end: the authority (taken whole as the host) and the path
parseAuthority(u, rest, auth) ==
    IF HasPrefix(rest, <<"/", "/">>) /\ (u.scheme # <<>> \/ ~HasPrefix(rest, <<"/", "/", "/">>))
    THEN IF Contains(auth.before, " ") \/ ~ValidEscapes(auth.before) \/ ~ValidEscapes(auth.after)
         THEN NilURL
         ELSE [u EXCEPT !.host = auth.before,
                        !.path = IF auth.found THEN <<"/">> \o auth.after ELSE <<>>]
    ELSE IF ~ValidEscapes(rest) THEN NilURL
    ELSE [u EXCEPT !.path = rest]

\* url.parse after the query is cut off: an opaque URL, "first path segment
\* in URL cannot contain colon", or authority and path
parsePath(u, rest, frag) ==
    IF ~HasPrefix(rest, <<"/">>) /\ u.scheme # <<>> THEN [u EXCEPT !.opaque = rest]
    ELSE IF ~HasPrefix(rest, <<"/">>) /\ Contains(Cut(rest, "/").before, ":") THEN NilURL
    ELSE IF ~ValidEscapes(frag) THEN NilURL
    ELSE parseAuthority(u, rest, Cut(SubSeq(rest, 3, Len(rest)), "/"))

\* url.parse after getScheme: the query is cut off at the first '?'
parseRest(sc, frag) ==
    IF sc.err THEN NilURL
    ELSE IF sc.rest # <<>> /\ sc.rest[Len(sc.rest)] = "?" /\ Count(sc.rest, "?") = 1
         THEN parsePath([NilURL EXCEPT !.err = FALSE, !.scheme = sc.scheme,
                                       !.forceQuery = TRUE, !.fragment = frag],
                        SubSeq(sc.rest, 1, Len(sc.rest) - 1), frag)
    ELSE parsePath([NilURL EXCEPT !.err = FALSE, !.scheme = sc.scheme,
                                  !.rawQuery = Cut(sc.rest, "?").after, !.fragment = frag],
                   Cut(sc.rest, "?").before, frag)

parseFrag(hc) == parseRest(getScheme(hc.before), hc.after)

\* url.Parse: the *URL, or NilURL (err) when the text does not parse
Parse[rawURL \in URLTexts] == parseFrag(Cut(rawURL, "#"))

\* URL.String
String(u) ==
    (IF u.scheme # <<>> THEN u.scheme \o <<":">> ELSE <<>>)
    \o (IF u.opaque # <<>> THEN u.opaque
        ELSE (IF (u.scheme # <<>> \/ u.host # <<>>) /\ (u.host # <<>> \/ u.path # <<>>)
              THEN <<"/", "/">> \o u.host ELSE <<>>)
             \o (IF u.path # <<>> /\ u.path[1] # "/" /\ u.host # <<>> THEN <<"/">> ELSE <<>>)
             \o u.path)
    \o (IF u.forceQuery \/ u.rawQuery # <<>> THEN <<"?">> \o u.rawQuery ELSE <<>>)
    \o (IF u.fragment # <<>> THEN <<"#">> \o u.fragment ELSE <<>>)

\* the byte value of a character
Code(c) == 31 + CHOOSE i \in 1..Len(Ascii) : Ascii[i] = c

UpperHex == <<"0", "1", "2", "3", "4", "5", "6", "7", "8", "9", "A", "B", "C", "D", "E", "F">>

HexVal(c) ==
    IF c \in Digits THEN Code(c) - Code("0")
    ELSE IF c \in {"a", "b", "c", "d", "e", "f"} THEN Code(c) - Code("a") + 10
    ELSE Code(c) - Code("A") + 10

\* the character of a byte value; a byte outside printable ASCII is shown as "?"
Chr(n) == IF n >= 32 /\ n < 32 + Len(Ascii) THEN Ascii[n - 31] ELSE "?"

\* url.QueryUnescape: [err, s]
RECURSIVE unescapeQuery(_)
unescapeQuery(s) ==
    IF s = <<>> THEN <<>>
    ELSE IF Head(s) = "%"
         THEN <<Chr(16 * HexVal(s[2]) + HexVal(s[3]))>> \o unescapeQuery(SubSeq(s, 4, Len(s)))
    ELSE IF Head(s) = "+" THEN <<" ">> \o unescapeQuery(Tail(s))
    ELSE <<Head(s)>> \o unescapeQuery(Tail(s))

QueryUnescape(s) ==
    IF ValidEscapes(s) THEN [err |-> FALSE, s |-> unescapeQuery(s)]
    ELSE [err |-> TRUE, s |-> <<>>]

\* url.shouldEscape in encodeQueryComponent mode
shouldEscape(c) == ~(c \in Letters \cup Digits \cup {"-", "_", ".", "~"})

\* url.QueryEscape
RECURSIVE QueryEscape(_)
QueryEscape(s) ==
    IF s = <<>> THEN <<>>
    ELSE (IF Head(s) = " " THEN <<"+">>
          ELSE IF shouldEscape(Head(s))
               THEN <<"%", UpperHex[(Code(Head(s)) \div 16) + 1], UpperHex[(Code(Head(s)) % 16) + 1]>>
          ELSE <<Head(s)>>)
         \o QueryEscape(Tail(s))

\* url.Values is a map from key to the list of its values
EmptyValues == [k \in {} |-> <<>>]

\* url.Values.Set in the place of Add: the key's earlier values are lost
AddOverwrite(v, key, value) ==
    [k \in DOMAIN v \cup {key} |-> IF k = key THEN <<value>> ELSE v[k]]

\* url.Values.Add
Add(v, key, value) ==
    IF key \in DOMAIN v THEN [v EXCEPT ![key] = Append(@, value)]
    ELSE v @@ (key :> <<value>>)

\* one "key=value" piece of url.ParseQuery, errors dropped as URL.Query does:
\* a piece with ';' or with a bad escape is skipped
parsePair(m, piece, key, val) ==
    IF Contains(piece, ";") \/ piece = <<>> \/ key.err \/ val.err THEN m
    ELSE Add(m, key.s, val.s)

parsePiece(m, piece) ==
    parsePair(m, piece, QueryUnescape(Cut(piece, "=").before), QueryUnescape(Cut(piece, "=").after))

\* url.ParseQuery: the pieces between '&', in order
RECURSIVE parseQuery(_, _)
parseQuery(m, query) ==
    IF query = <<>> THEN m
    ELSE parseQuery(parsePiece(m, Cut(query, "&").before), Cut(query, "&").after)

\* URL.Query
Query(u) == parseQuery(EmptyValues, u.rawQuery)

\* byte-wise string order, as sort.Strings / slices.Sort order keys
RECURSIVE StrLess(_, _)
StrLess(a, b) ==
    IF b = <<>> THEN FALSE
    ELSE IF a = <<>> THEN TRUE
    ELSE IF Head(a) = Head(b) THEN StrLess(Tail(a), Tail(b))
    ELSE Code(Head(a)) < Code(Head(b))

MinKey(S) == CHOOSE x \in S : \A y \in S \ {x} : StrLess(x, y)

RECURSIVE SortedKeys(_)
SortedKeys(S) ==
    IF S = {} THEN <<>>
    ELSE <<MinKey(S)>> \o SortedKeys(S \ {MinKey(S)})

RECURSIVE encodeKey(_, _)
encodeKey(key, vs) ==
    IF vs = <<>> THEN <<>>
    ELSE <<QueryEscape(key) \o <<"=">> \o QueryEscape(Head(vs))>> \o encodeKey(key, Tail(vs))

RECURSIVE encodePairs(_, _)
encodePairs(v, keys) ==
    IF keys = <<>> THEN <<>>
    ELSE encodeKey(Head(keys), v[Head(keys)]) \o encodePairs(v, Tail(keys))

RECURSIVE JoinWith(_, _)
JoinWith(parts, sep) ==
    IF parts = <<>> THEN <<>>
    ELSE IF Len(parts) = 1 THEN parts[1]
    ELSE parts[1] \o sep \o JoinWith(Tail(parts), sep)


(***************************************************************************)
(* HTML documents as goquery presents them: the elements in document       *)
(* order, each with its tag and its attributes (name, text) in source      *)
(* order. parseErr: goquery.NewDocumentFromReader returned an error.       *)
(***************************************************************************)

\* goquery Selection.Attr: the first attribute of that name
RECURSIVE attrIn(_, _)
attrIn(attrs, k) ==
    IF attrs = <<>> THEN [exists |-> FALSE, val |-> <<>>]
    ELSE IF Head(attrs)[1] = k THEN [exists |-> TRUE, val |-> Head(attrs)[2]]
    ELSE attrIn(Tail(attrs), k)

Attr(e, k) == attrIn(e.attrs, k)

\* goquery Selection.AttrOr
AttrOr(e, k, default) == IF Attr(e, k).exists THEN Attr(e, k).val ELSE default

\* the elements doc.Find(selector) visits, in document order
RECURSIVE Find(_, _)
Find(elems, tags) ==
    IF elems = <<>> THEN <<>>
    ELSE (IF Head(elems).tag \in tags THEN <<Head(elems)>> ELSE <<>>) \o Find(Tail(elems), tags)

\* appending every value of every key of m to params (the order over keys
\* is the map's, and does not change the result)
AddAll(params, m) ==
    [k \in DOMAIN params \cup DOMAIN m |->
        (IF k \in DOMAIN params THEN params[k] ELSE <<>>)
        \o (IF k \in DOMAIN m THEN m[k] ELSE <<>>)]

addQueryOf(parsedURL, params) ==
    IF parsedURL.err THEN params ELSE AddAll(params, Query(parsedURL))

\* parseURLAndAddQueryParameters (src/main.go): a URL that does not parse is
\* logged and skipped
parseURLAndAddQueryParameters(rawurl, params) == addQueryOf(Parse[rawurl], params)

MainSelector == {"a", "form", "input", "select", "textarea"}

\* the callback of Each in extractQueryParamsFromHTML (src/main.go), in its
\* three parts: name and value, href, action
eachName(queryParameters, s) ==
    IF Attr(s, "name").exists
    THEN Add(queryParameters, Attr(s, "name").val, AttrOr(s, "value", FUZZ))
    ELSE queryParameters

eachURLAttr(queryParameters, s, k) ==
    IF Attr(s, k).exists
    THEN parseURLAndAddQueryParameters(Attr(s, k).val, queryParameters)
    ELSE queryParameters

eachMain(queryParameters, s) ==
    eachURLAttr(eachURLAttr(eachName(queryParameters, s), s, "href"), s, "action")

RECURSIVE foldMain(_, _)
foldMain(queryParameters, sel) ==
    IF sel = <<>> THEN queryParameters
    ELSE foldMain(eachMain(queryParameters, Head(sel)), Tail(sel))

\* extractQueryParamsFromHTML of src/main.go
extractQueryParamsFromHTML[doc \in Documents] ==
    IF doc.parseErr THEN EmptyValues
    ELSE foldMain(EmptyValues, Find(doc.elems, MainSelector))

\* mergeQueryParameters (src/unnamed/part_000)
mergeQueryParameters(params1, params2) == AddAll(params1, params2)

VariantSelector == {"input", "select", "textarea", "a"}

\* strings.TrimSpace, then "FUZZ" for the empty string
fuzzIfBlank(value) == IF TrimSpace(value) = <<>> THEN FUZZ ELSE TrimSpace(value)

\* the callback of Each in extractQueryParamsFromHTML (src/unnamed/part_000),
\* in its three parts: name and value, href, src
eachNameVariant(r, name, value) ==
    IF name # <<>> THEN [r EXCEPT !.params = Add(@, name, fuzzIfBlank(value))] ELSE r

\* the result of url.Parse is used without looking at its error, so a href
\* or src that does not parse is a nil dereference: panic
mergeParsed(r, parsedURL) ==
    IF parsedURL.err THEN [r EXCEPT !.panic = TRUE]
    ELSE [r EXCEPT !.params = mergeQueryParameters(@, Query(parsedURL))]

eachURLAttrVariant(r, rawurl) ==
    IF r.panic \/ rawurl = <<>> THEN r ELSE mergeParsed(r, Parse[rawurl])

eachVariant(r, element) ==
    IF r.panic THEN r
    ELSE eachURLAttrVariant(
             eachURLAttrVariant(
                 eachNameVariant(r, AttrOr(element, "name", <<>>), AttrOr(element, "value", <<>>)),
                 AttrOr(element, "href", <<>>)),
             AttrOr(element, "src", <<>>))

RECURSIVE foldVariant(_, _)
foldVariant(r, sel) ==
    IF sel = <<>> THEN r
    ELSE foldVariant(eachVariant(r, Head(sel)), Tail(sel))

\* the pass over the finished map at the end of extractQueryParamsFromHTML
\* (src/unnamed/part_000)
normalizeAll(queryParameters) ==
    [key \in DOMAIN queryParameters |->
        [i \in 1..Len(queryParameters[key]) |-> fuzzIfBlank(queryParameters[key][i])]]

normalizeResult(r) == IF r.panic THEN r ELSE [r EXCEPT !.params = normalizeAll(@)]

\* extractQueryParamsFromHTML of src/unnamed/part_000: [panic, params]
extractQueryParamsFromHTMLVariant[doc \in Documents] ==
    IF doc.parseErr THEN [panic |-> FALSE, params |-> EmptyValues]
    ELSE normalizeResult(foldVariant([panic |-> FALSE, params |-> EmptyValues],
                                     Find(doc.elems, VariantSelector)))

\* an Encode that writes keys and values as they are, without escaping
RECURSIVE rawKey(_, _)
rawKey(key, vs) ==
    IF vs = <<>> THEN <<>>
    ELSE <<key \o <<"=">> \o Head(vs)>> \o rawKey(key, Tail(vs))

RECURSIVE rawPairs(_, _)
rawPairs(v, keys) ==
    IF keys = <<>> THEN <<>>
    ELSE rawKey(Head(keys), v[Head(keys)]) \o rawPairs(v, Tail(keys))

encodeRaw(v) == JoinWith(rawPairs(v, SortedKeys(DOMAIN v)), <<"&">>)

\* url.Values.Encode: "key=value" pairs joined by '&', keys sorted, keys and
\* values escaped
encode(v) == JoinWith(encodePairs(v, SortedKeys(DOMAIN v)), <<"&">>)

\* the maps the runs hand to url.Values.Encode: what the extraction gives
ExtractedValues ==
    {extractQueryParamsFromHTML[d] : d \in Documents}
    \cup {extractQueryParamsFromHTMLVariant[d].params : d \in Documents}

\* url.Values.Encode on the maps of the runs
Encode[v \in ExtractedValues] == encode(v)

(***************************************************************************)
(* State.                                                                  *)
(***************************************************************************)
VARIABLES
    cfg,       \* the flags: variant (which entry point runs), concurrency,
               \* quiet, verbose, proxy, headers, baseURL, followRedirects
    input,     \* the lines of the input stream, with the environment's answers
    scanned,   \* the number of lines scanner.Scan has returned
    urls,      \* the buffered channel: indices of the lines in it, oldest first
    closed,    \* close(urls) has been called
    mainPc,    \* main: "scan" (the send loop), "wait" (wg.Wait), "done"
    wpc,       \* each worker: "recv", "fetch", "read", "extract", "rewrite",
               \* "write", "writing", "exit"
    wline,     \* the line a worker is processing (0: none)
    wparams,   \* its queryParameters
    wout,      \* its modifiedURL
    writer,    \* the worker inside file.WriteString (0: none)
    file,      \* the output file: the chunks written, each with its line
    errorLog,  \* the lines of the error log
    console,   \* the lines printed on standard output
    crashed,   \* a goroutine has panicked: the process is gone
    status,    \* per input line: where its processing is
    enq,       \* per input line: how often it was sent on the channel
    rcv,       \* per input line: how often a worker received it
    fetches,   \* per input line: how often client.Do was called for it
    resp,      \* per input line: what client.Do returned (the HTTP requests it
               \* issued, its error, the body of the response it handed back)
    reason,    \* per input line: the kind of error that ended it ("none": no error)
    html,      \* extraction on its own: the document under test
    extracted, \* extraction on its own: the results, once computed
    trip       \* the encoding on its own: a map, its query string, the map
               \* parsed back from it

pipeVars ==
    <<cfg, input, scanned, urls, closed, mainPc, wpc, wline, wparams, wout, writer,
      file, errorLog, console, crashed, status, enq, rcv, fetches, resp, reason>>

vars == <<pipeVars, html, extracted, trip>>

\* the default of flag "c" (10 in both entry points), scaled to the largest
\* worker count explored
DefaultConcurrency == MaxWorkers

\* the number of goroutines main starts and the capacity of the channel.
\* src/main.go reads concurrencyFlag after flag.Parse; src/unnamed/part_000
\* reads *concurrencyFlag before flag.Parse, which is the default
NumWorkers == IF cfg.variant = "main" THEN cfg.concurrency ELSE DefaultConcurrency

Workers == 1..NumWorkers

Lines == 1..Len(input)

Terminal == {"Written", "Skipped", "Failed"}

AllConfigs ==
    [variant : {"main", "part"},
     concurrency : 0..MaxWorkers,
     quiet : BOOLEAN,
     verbose : BOOLEAN,
     proxy : {NoProxy, BadProxy},
     headers : {<<GoodHeader>>, <<GoodHeader, BadHeader>>},
     baseURL : {NoBase, BaseURL},
     followRedirects : BOOLEAN]

\* the flag combinations explored: at most one of -q, -v and -baseurl is
\* given at a time, a run whose proxy or header is bad (every line fails
\* before its request) is explored without -v and -baseurl, and
\* src/unnamed/part_000, which never looks at -c before it starts its
\* workers, is run with -c 1; -r keeps its default (true) and there is at
\* least one worker
Configs ==
    {c \in AllConfigs :
        /\ c.followRedirects
        /\ c.concurrency >= 1
        /\ ~(c.quiet /\ c.verbose)
        /\ c.baseURL # NoBase => (~c.quiet /\ ~c.verbose)
        /\ c.variant = "part" => c.concurrency = 1
        /\ (c.proxy = BadProxy \/ c.headers # <<GoodHeader>>) => ~c.verbose}

Inputs == UNION {[1..n -> LineSamples] : n \in 0..MaxLines}

\* the runs that look at redirects: -r given either way, everything else
\* at its default
RedirectConfigs ==
    {c \in AllConfigs :
        /\ c.concurrency >= 1
        /\ ~c.quiet /\ ~c.verbose
        /\ c.proxy = NoProxy /\ c.headers = <<GoodHeader>> /\ c.baseURL = NoBase
        /\ c.variant = "part" => c.concurrency = 1}

\* src/main.go run with -c 0 and with -c 1, everything else at its default
StallConfigs ==
    {c \in AllConfigs :
        /\ c.variant = "main"
        /\ c.concurrency <= 1
        /\ c.followRedirects /\ ~c.quiet /\ ~c.verbose
        /\ c.proxy = NoProxy /\ c.headers = <<GoodHeader>> /\ c.baseURL = NoBase}

RedirectInputs == UNION {[1..n -> RedirectSamples] : n \in 0..MaxLines}

NoDoc == [parseErr |-> FALSE, elems |-> <<>>]
NotExtracted == [done |-> FALSE]
NoTrip ==
    [params |-> EmptyValues, added |-> 0, encoded |-> FALSE, query |-> <<>>,
     parsed |-> FALSE, back |-> EmptyValues]
NoResponse == [requests |-> 0, err |-> FALSE, body |-> NoDoc]

\* the state when main starts, for the flags and the input it is given
Start ==
    /\ scanned = 0
    /\ urls = <<>>
    /\ closed = FALSE
    /\ mainPc = "scan"
    /\ wpc = [w \in Workers |-> "recv"]
    /\ wline = [w \in Workers |-> 0]
    /\ wparams = [w \in Workers |-> EmptyValues]
    /\ wout = [w \in Workers |-> <<>>]
    /\ writer = 0
    /\ file = <<>>
    /\ errorLog = <<>>
    /\ console = <<>>
    /\ crashed = FALSE
    /\ status = [i \in Lines |-> "Unread"]
    /\ enq = [i \in Lines |-> 0]
    /\ rcv = [i \in Lines |-> 0]
    /\ fetches = [i \in Lines |-> 0]
    /\ resp = [i \in Lines |-> NoResponse]
    /\ reason = [i \in Lines |-> "none"]
    /\ html = NoDoc
    /\ extracted = NotExtracted
    /\ trip = NoTrip

Init ==
    /\ cfg \in Configs
    /\ input \in Inputs
    /\ Start

(***************************************************************************)
(* main: the producer loop, close and wg.Wait.                             *)
(***************************************************************************)

\* a send that does not block: the line is dropped when the channel is full
SendOrDrop ==
    /\ ~crashed
    /\ mainPc = "scan"
    /\ scanned < Len(input)
    /\ scanned' = scanned + 1
    /\ IF Len(urls) < NumWorkers
       THEN /\ urls' = Append(urls, scanned + 1)
            /\ status' = [status EXCEPT ![scanned + 1] = "Queued"]
            /\ enq' = [enq EXCEPT ![scanned + 1] = @ + 1]
       ELSE UNCHANGED <<urls, status, enq>>
    /\ UNCHANGED <<cfg, input, closed, mainPc, wpc, wline, wparams, wout, writer,
                   file, errorLog, console, crashed, rcv, fetches, resp, reason,
                   html,
                   extracted, trip>>

\* a send into a queue without a capacity: it never blocks
SendUnbounded ==
    /\ ~crashed
    /\ mainPc = "scan"
    /\ scanned < Len(input)
    /\ scanned' = scanned + 1
    /\ urls' = Append(urls, scanned + 1)
    /\ status' = [status EXCEPT ![scanned + 1] = "Queued"]
    /\ enq' = [enq EXCEPT ![scanned + 1] = @ + 1]
    /\ UNCHANGED <<cfg, input, closed, mainPc, wpc, wline, wparams, wout, writer,
                   file, errorLog, console, crashed, rcv, fetches, resp, reason,
                   html, extracted, trip>>

\* urls <- scanner.Text(): blocks while the channel is full
Send ==
    /\ ~crashed
    /\ mainPc = "scan"
    /\ scanned < Len(input)
    /\ Len(urls) < NumWorkers
    /\ scanned' = scanned + 1
    /\ urls' = Append(urls, scanned + 1)
    /\ status' = [status EXCEPT ![scanned + 1] = "Queued"]
    /\ enq' = [enq EXCEPT ![scanned + 1] = @ + 1]
    /\ UNCHANGED <<cfg, input, closed, mainPc, wpc, wline, wparams, wout, writer,
                   file, errorLog, console, crashed, rcv, fetches, resp, reason,
                   html,
                   extracted, trip>>

\* scanner.Scan returns false: close(urls), then wg.Wait
Close ==
    /\ ~crashed
    /\ mainPc = "scan"
    /\ scanned = Len(input)
    /\ closed' = TRUE
    /\ mainPc' = "wait"
    /\ UNCHANGED <<cfg, input, scanned, urls, wpc, wline, wparams, wout, writer,
                   file, errorLog, console, crashed, status, enq, rcv, fetches,
                   resp, reason, html, extracted, trip>>

\* wg.Wait returns when every worker has called wg.Done
Wait ==
    /\ ~crashed
    /\ mainPc = "wait"
    /\ \A w \in Workers : wpc[w] = "exit"
    /\ mainPc' = "done"
    /\ UNCHANGED <<cfg, input, scanned, urls, closed, wpc, wline, wparams, wout,
                   writer, file, errorLog, console, crashed, status, enq, rcv,
                   fetches, resp, reason, html, extracted, trip>>

(***************************************************************************)
(* What is reported for a failure. An entry keeps the format string and    *)
(* the texts that appear in the printed line: the string arguments and     *)
(* the URL or path an error value of the library carries.                  *)
(***************************************************************************)
Entry(i, format, mentions) == [line |-> i, format |-> format, mentions |-> mentions]

\* finalURL: baseURL + urlStr
FinalURL(u) == IF cfg.baseURL # <<>> THEN cfg.baseURL \o u ELSE u

\* the first custom header that strings.SplitN(header, ":", 2) does not cut in two
RECURSIVE firstBadHeader(_)
firstBadHeader(headers) ==
    IF headers = <<>> THEN <<>>
    ELSE IF Len(SplitN2(Head(headers), ":")) # 2 THEN <<Head(headers)>>
    ELSE firstBadHeader(Tail(headers))

\* processURL up to client.Do (createRequestWithCustomHeaders in
\* src/unnamed/part_000): the error that ends it before the request is sent
requestError(u) ==
    IF cfg.proxy # <<>> /\ Parse[cfg.proxy].err THEN "proxy"
    ELSE IF Parse[FinalURL(u)].err THEN "request"
    ELSE IF firstBadHeader(cfg.headers) # <<>> THEN "header"
    ELSE "none"

\* src/main.go: the lines processURL and the worker loop add to the error log
\* for an error of that kind on line i
errorLogLines(kind, i) ==
    LET u == input[i].url
    IN  CASE kind = "proxy" ->
               <<Entry(i, "error parsing proxy URL: %v", <<cfg.proxy>>)>>
          [] kind = "request" ->
               <<Entry(i, "error creating request: %v", <<FinalURL(u)>>)>>
          [] kind = "header" ->
               <<Entry(i, "invalid header format: %s", firstBadHeader(cfg.headers))>>
          [] kind = "network" ->
               <<Entry(i, "error making request to %s: %v", <<u, FinalURL(u)>>)>>
          [] kind = "read" ->
               <<Entry(i, "Error reading response body from URL %s: %v", <<u>>),
                 Entry(i, "%v", <<>>)>>
          [] kind = "parse" ->
               <<Entry(i, "error parsing URL %s: %v", <<u, u>>)>>
          [] kind = "write" ->
               <<Entry(i, "Error writing to file: %v", <<>>),
                 Entry(i, "%v", <<>>)>>

\* src/unnamed/part_000: the line extractParamsFromURL prints on standard output
printedLines(kind, i) ==
    LET u == input[i].url
    IN  CASE kind \in {"proxy", "request", "header", "network"} ->
               <<Entry(i, "Error requesting URL %s: %v", <<u>>)>>
          [] kind = "read" ->
               <<Entry(i, "Error reading response body from URL %s: %v", <<u>>)>>
          [] kind = "write" ->
               <<Entry(i, "Error writing to file: %v", <<>>)>>

\* the verbose block: the URL, then each key with its values joined by ", "
verboseLines(i, params) ==
    IF cfg.verbose
    THEN <<[line |-> i, format |-> "Extracted parameters from URL %s:",
            mentions |-> <<input[i].url>>,
            params |-> [k \in DOMAIN params |-> JoinWith(params[k], <<",", " ">>)]]>>
    ELSE <<>>

\* the worker is back at "for u := range urls" with the line's outcome recorded
Return(w, outcome, kind, logLines, printed) ==
    /\ wpc' = [wpc EXCEPT ![w] = "recv"]
    /\ reason' = [reason EXCEPT ![wline[w]] = kind]
    /\ wline' = [wline EXCEPT ![w] = 0]
    /\ wparams' = [wparams EXCEPT ![w] = EmptyValues]
    /\ wout' = [wout EXCEPT ![w] = <<>>]
    /\ status' = [status EXCEPT ![wline[w]] = outcome]
    /\ errorLog' = errorLog \o logLines
    /\ console' = console \o printed

\* the line's processing ends with an error of that kind
ReturnError(w, kind) ==
    IF cfg.variant = "main"
    THEN Return(w, "Failed", kind,
                IF cfg.quiet THEN <<>> ELSE errorLogLines(kind, wline[w]), <<>>)
    ELSE Return(w, "Failed", kind, <<>>,
                IF cfg.quiet THEN <<>> ELSE printedLines(kind, wline[w]))

\* a panic in a worker goroutine ends the process
Panic ==
    /\ crashed' = TRUE
    /\ UNCHANGED <<wpc, wline, wparams, wout, status, reason, errorLog, console>>

(***************************************************************************)
(* The workers.                                                            *)
(***************************************************************************)

\* for u := range urls: a value is received
Recv(w) ==
    /\ ~crashed
    /\ wpc[w] = "recv"
    /\ urls # <<>>
    /\ urls' = Tail(urls)
    /\ wline' = [wline EXCEPT ![w] = Head(urls)]
    /\ wpc' = [wpc EXCEPT ![w] = "fetch"]
    /\ status' = [status EXCEPT ![Head(urls)] = "Fetching"]
    /\ rcv' = [rcv EXCEPT ![Head(urls)] = @ + 1]
    /\ UNCHANGED <<cfg, input, scanned, closed, mainPc, wparams, wout, writer, file,
                   errorLog, console, crashed, enq, fetches, resp, reason, html,
                   extracted, trip>>

\* a worker that returns as soon as it finds the channel empty
ExitWhenEmpty(w) ==
    /\ ~crashed
    /\ wpc[w] = "recv"
    /\ urls = <<>>
    /\ wpc' = [wpc EXCEPT ![w] = "exit"]
    /\ UNCHANGED <<cfg, input, scanned, urls, closed, mainPc, wline, wparams, wout,
                   writer, file, errorLog, console, crashed, status, enq, rcv,
                   fetches, resp, reason, html, extracted, trip>>

\* for u := range urls: the channel is closed and empty; the deferred wg.Done
Exit(w) ==
    /\ ~crashed
    /\ wpc[w] = "recv"
    /\ urls = <<>>
    /\ closed
    /\ wpc' = [wpc EXCEPT ![w] = "exit"]
    /\ UNCHANGED <<cfg, input, scanned, urls, closed, mainPc, wline, wparams, wout,
                   writer, file, errorLog, console, crashed, status, enq, rcv,
                   fetches, resp, reason, html, extracted, trip>>

\* the response of a client.Do that stopped at the first response
firstResponse(l) ==
    [requests |-> 1, err |-> FALSE,
     body |-> IF l.redirects > 0 THEN l.redirectDoc ELSE l.doc]

\* a client whose CheckRedirect is set whatever followRedirects says
clientDoStopAlways(l) ==
    IF l.net = "err" THEN [requests |-> 1, err |-> TRUE, body |-> NoDoc]
    ELSE firstResponse(l)

\* client.Do(req): a transport error on the first request; with CheckRedirect
\* returning http.ErrUseLastResponse (set only if !followRedirects) the first
\* response, redirect or not; else the default policy, which follows the
\* chain and refuses the request after the tenth
clientDo(l) ==
    IF l.net = "err" THEN [requests |-> 1, err |-> TRUE, body |-> NoDoc]
    ELSE IF ~cfg.followRedirects THEN firstResponse(l)
    ELSE IF l.redirects >= StoppedAfter
         THEN [requests |-> StoppedAfter, err |-> TRUE, body |-> NoDoc]
    ELSE [requests |-> 1 + l.redirects, err |-> FALSE, body |-> l.doc]

\* a processURL that sends the request before it looks at the custom headers
fetchLineHeadersLast(w, i, e) ==
    IF e \in {"proxy", "request"}
    THEN /\ ReturnError(w, e)
         /\ UNCHANGED <<fetches, resp>>
    ELSE /\ fetches' = [fetches EXCEPT ![i] = @ + 1]
         /\ resp' = [resp EXCEPT ![i] = clientDo(input[i])]
         /\ IF clientDo(input[i]).err
            THEN ReturnError(w, "network")
            ELSE IF e = "header"
            THEN ReturnError(w, "header")
            ELSE /\ wpc' = [wpc EXCEPT ![w] = "read"]
                 /\ UNCHANGED <<wline, wparams, wout, status, reason, errorLog, console>>

\* processURL from its start to client.Do, for line i with request error e
fetchLine(w, i, e) ==
    IF e # "none"
    THEN /\ ReturnError(w, e)
         /\ UNCHANGED <<fetches, resp>>
    ELSE /\ fetches' = [fetches EXCEPT ![i] = @ + 1]
         /\ resp' = [resp EXCEPT ![i] = clientDo(input[i])]
         /\ IF clientDo(input[i]).err
            THEN ReturnError(w, "network")
            ELSE /\ wpc' = [wpc EXCEPT ![w] = "read"]
                 /\ UNCHANGED <<wline, wparams, wout, status, reason, errorLog, console>>

\* the client, the request and its headers are built and client.Do is called
Fetch(w) ==
    /\ ~crashed
    /\ wpc[w] = "fetch"
    /\ fetchLine(w, wline[w], requestError(input[wline[w]].url))
    /\ UNCHANGED <<cfg, input, scanned, urls, closed, mainPc, writer, file, crashed,
                   enq, rcv, html, extracted, trip>>

\* a worker that goes on to the extraction whatever io.Copy returned
ReadBodyUnchecked(w) ==
    /\ ~crashed
    /\ wpc[w] = "read"
    /\ wpc' = [wpc EXCEPT ![w] = "extract"]
    /\ status' = [status EXCEPT ![wline[w]] = "Extracting"]
    /\ UNCHANGED <<wline, wparams, wout, reason, errorLog, console>>
    /\ UNCHANGED <<cfg, input, scanned, urls, closed, mainPc, writer, file, crashed,
                   enq, rcv, fetches, resp, html, extracted, trip>>

\* io.Copy(buf, resp.Body)
ReadBody(w) ==
    /\ ~crashed
    /\ wpc[w] = "read"
    /\ IF input[wline[w]].read = "err"
       THEN ReturnError(w, "read")
       ELSE /\ wpc' = [wpc EXCEPT ![w] = "extract"]
            /\ status' = [status EXCEPT ![wline[w]] = "Extracting"]
            /\ UNCHANGED <<wline, wparams, wout, reason, errorLog, console>>
    /\ UNCHANGED <<cfg, input, scanned, urls, closed, mainPc, writer, file, crashed,
                   enq, rcv, fetches, resp, html, extracted, trip>>

\* what extractQueryParamsFromHTML gives on the body: [panic, params]
extractBody(doc) ==
    IF cfg.variant = "main"
    THEN [panic |-> FALSE, params |-> extractQueryParamsFromHTML[doc]]
    ELSE extractQueryParamsFromHTMLVariant[doc]

\* a processURL without the test len(queryParameters) > 0
extractLineUntested(w, r) ==
    IF r.panic
    THEN Panic
    ELSE /\ UNCHANGED crashed
         /\ wpc' = [wpc EXCEPT ![w] = "rewrite"]
         /\ wparams' = [wparams EXCEPT ![w] = r.params]
         /\ status' = [status EXCEPT ![wline[w]] = "Rewriting"]
         /\ UNCHANGED <<wline, wout, reason, errorLog, console>>

\* the test len(queryParameters) > 0 on the extracted map
extractLine(w, r) ==
    IF r.panic
    THEN Panic
    ELSE /\ UNCHANGED crashed
         /\ IF DOMAIN r.params = {}
            THEN Return(w, "Skipped", "none", <<>>, <<>>)
            ELSE /\ wpc' = [wpc EXCEPT ![w] = "rewrite"]
                 /\ wparams' = [wparams EXCEPT ![w] = r.params]
                 /\ status' = [status EXCEPT ![wline[w]] = "Rewriting"]
                 /\ UNCHANGED <<wline, wout, reason, errorLog, console>>

\* queryParameters := extractQueryParamsFromHTML(buf.String()), and the test
\* len(queryParameters) > 0
Extract(w) ==
    /\ ~crashed
    /\ wpc[w] = "extract"
    /\ extractLine(w, extractBody(resp[wline[w]].body))
    /\ UNCHANGED <<cfg, input, scanned, urls, closed, mainPc, writer, file, enq, rcv,
                   fetches, resp, html, extracted, trip>>

\* a rewrite that adds the new parameters to the query the URL came with
modifiedURLKeepQuery(parsedURL, queryParameters) ==
    String([parsedURL EXCEPT !.rawQuery =
               IF @ = <<>> THEN Encode[queryParameters]
               ELSE @ \o <<"&">> \o Encode[queryParameters]])

\* parsedURL.RawQuery = queryParameters.Encode(); parsedURL.String()
modifiedURL(parsedURL, queryParameters) ==
    String([parsedURL EXCEPT !.rawQuery = Encode[queryParameters]])

\* the rewrite with the result of url.Parse(urlStr). src/unnamed/part_000
\* drops the error of url.Parse and writes through the nil *URL it got
rewriteLine(w, parsedURL) ==
    IF parsedURL.err
    THEN IF cfg.variant = "main"
         THEN ReturnError(w, "parse") /\ UNCHANGED crashed
         ELSE Panic
    ELSE /\ wpc' = [wpc EXCEPT ![w] = "write"]
         /\ wout' = [wout EXCEPT ![w] = modifiedURL(parsedURL, wparams[w])]
         /\ UNCHANGED <<wline, wparams, status, reason, errorLog, console, crashed>>

\* url.Parse(urlStr), RawQuery = queryParameters.Encode(), parsedURL.String()
Rewrite(w) ==
    /\ ~crashed
    /\ wpc[w] = "rewrite"
    /\ rewriteLine(w, Parse[input[wline[w]].url])
    /\ UNCHANGED <<cfg, input, scanned, urls, closed, mainPc, writer, file, enq, rcv,
                   fetches, resp, html, extracted, trip>>

\* a write that does not wait for the writer before it
WriteBeginUnlocked(w) ==
    /\ ~crashed
    /\ wpc[w] = "write"
    /\ IF input[wline[w]].write = "err"
       THEN /\ IF cfg.variant = "main"
               THEN ReturnError(w, "write")
               ELSE Return(w, "Failed", "write", <<>>,
                           (IF cfg.quiet THEN <<>> ELSE printedLines("write", wline[w]))
                           \o verboseLines(wline[w], wparams[w]))
            /\ UNCHANGED <<writer, file>>
       ELSE /\ writer' = w
            /\ file' = Append(file, [line |-> wline[w], text |-> wout[w]])
            /\ wpc' = [wpc EXCEPT ![w] = "writing"]
            /\ UNCHANGED <<wline, wparams, wout, status, reason, errorLog, console>>
    /\ UNCHANGED <<cfg, input, scanned, urls, closed, mainPc, crashed, enq, rcv,
                   fetches, resp, html, extracted, trip>>

\* file.WriteString(modifiedURL + "\n") is entered: os.File lets one writer in
\* at a time. A failed write leaves nothing in the file; in src/main.go it
\* ends the line's processing, in src/unnamed/part_000 the verbose block
\* still follows
WriteBegin(w) ==
    /\ ~crashed
    /\ wpc[w] = "write"
    /\ writer = 0
    /\ IF input[wline[w]].write = "err"
       THEN /\ IF cfg.variant = "main"
               THEN ReturnError(w, "write")
               ELSE Return(w, "Failed", "write", <<>>,
                           (IF cfg.quiet THEN <<>> ELSE printedLines("write", wline[w]))
                           \o verboseLines(wline[w], wparams[w]))
            /\ UNCHANGED <<writer, file>>
       ELSE /\ writer' = w
            /\ file' = Append(file, [line |-> wline[w], text |-> wout[w]])
            /\ wpc' = [wpc EXCEPT ![w] = "writing"]
            /\ UNCHANGED <<wline, wparams, wout, status, reason, errorLog, console>>
    /\ UNCHANGED <<cfg, input, scanned, urls, closed, mainPc, crashed, enq, rcv,
                   fetches, resp, html, extracted, trip>>

\* file.WriteString returns: the newline is in the file; then the verbose block
WriteEnd(w) ==
    /\ ~crashed
    /\ wpc[w] = "writing"
    /\ writer' = 0
    /\ file' = Append(file, [line |-> wline[w], text |-> <<"\n">>])
    /\ Return(w, "Written", "none", <<>>, verboseLines(wline[w], wparams[w]))
    /\ UNCHANGED <<cfg, input, scanned, urls, closed, mainPc, crashed, enq, rcv,
                   fetches, resp, html, extracted, trip>>

Next ==
    \/ Send
    \/ Close
    \/ Wait
    \/ \E w \in Workers : Recv(w)
    \/ \E w \in Workers : Exit(w)
    \/ \E w \in Workers : Fetch(w)
    \/ \E w \in Workers : ReadBody(w)
    \/ \E w \in Workers : Extract(w)
    \/ \E w \in Workers : Rewrite(w)
    \/ \E w \in Workers : WriteBegin(w)
    \/ \E w \in Workers : WriteEnd(w)

\* both entry points
Spec == Init /\ [][Next]_vars

\* both entry points, run with and without -r on servers that redirect
InitRedirect ==
    /\ cfg \in RedirectConfigs
    /\ input \in RedirectInputs
    /\ Start

SpecRedirect == InitRedirect /\ [][Next]_vars

\* src/main.go with no worker (-c 0) and with one
InitStall ==
    /\ cfg \in StallConfigs
    /\ input \in Inputs
    /\ Start

SpecStall == InitStall /\ [][Next]_vars

\* src/main.go alone
InitMain == Init /\ cfg.variant = "main"

SpecMain == InitMain /\ [][Next]_vars

\* src/main.go with the scheduling the Go runtime gives: a goroutine that can
\* take a step is eventually run, and each step of a line's processing ends
\* (the request has a timeout)
FairSpecMain == SpecMain /\ WF_vars(Next)

(***************************************************************************)
(* The extraction on its own: a document is put together element by       *)
(* element, then both extractQueryParamsFromHTML are applied to it.        *)
(***************************************************************************)
InitExtract ==
    /\ Init
    /\ cfg = [variant |-> "main", concurrency |-> 1, quiet |-> FALSE, verbose |-> FALSE,
              proxy |-> NoProxy, headers |-> <<GoodHeader>>, baseURL |-> NoBase,
              followRedirects |-> TRUE]
    /\ input = <<>>

\* the next element of the document
AppendElement ==
    /\ ~extracted.done
    /\ ~html.parseErr
    /\ Len(html.elems) < MaxElems
    /\ \E e \in Elements : html' = [html EXCEPT !.elems = Append(@, e)]
    /\ UNCHANGED <<pipeVars, extracted, trip>>

\* goquery.NewDocumentFromReader fails on the document
BreakDocument ==
    /\ ~extracted.done
    /\ ~html.parseErr
    /\ html' = [html EXCEPT !.parseErr = TRUE]
    /\ UNCHANGED <<pipeVars, extracted, trip>>

\* extractQueryParamsFromHTML(responseBody), in src/main.go and in
\* src/unnamed/part_000
RunExtract ==
    /\ ~extracted.done
    /\ extracted' = [done |-> TRUE,
                     main |-> extractQueryParamsFromHTML[html],
                     variant |-> extractQueryParamsFromHTMLVariant[html]]
    /\ UNCHANGED <<pipeVars, html, trip>>

NextExtract == AppendElement \/ BreakDocument \/ RunExtract

SpecExtract == InitExtract /\ [][NextExtract]_vars

(***************************************************************************)
(* The encoding on its own: a map is built with url.Values.Add, encoded    *)
(* as processURL encodes queryParameters, and the query string is parsed   *)
(* back with url.ParseQuery.                                               *)
(***************************************************************************)

\* the most values a map is given
MaxPairs == 3

\* names and values as pages can carry them: plain ones, the empty one, and
\* ones with the separators and escapes of a query string
SampleKeys == {<<"q">>, <<"i", "d">>, <<>>, <<"a", "&", "=", " ">>}
SampleVals ==
    {FUZZ, <<"1">>, <<"5">>, <<>>, <<"x", "&", "y", "=", " ", "z">>,
     <<"%", "2", "0", "+", ";", "#">>}

\* queryParameters.Add(key, value)
AddParam ==
    /\ ~trip.encoded
    /\ trip.added < MaxPairs
    /\ \E k \in SampleKeys, v \in SampleVals :
           trip' = [trip EXCEPT !.params = Add(@, k, v), !.added = @ + 1]
    /\ UNCHANGED <<pipeVars, html, extracted>>

\* parsedURL.RawQuery = queryParameters.Encode()
EncodeParams ==
    /\ ~trip.encoded
    /\ trip' = [trip EXCEPT !.encoded = TRUE, !.query = encode(trip.params)]
    /\ UNCHANGED <<pipeVars, html, extracted>>

\* url.ParseQuery of the query string, as URL.Query does it
ParseBack ==
    /\ trip.encoded
    /\ ~trip.parsed
    /\ trip' = [trip EXCEPT !.parsed = TRUE, !.back = parseQuery(EmptyValues, trip.query)]
    /\ UNCHANGED <<pipeVars, html, extracted>>

NextRoundTrip == AddParam \/ EncodeParams \/ ParseBack

SpecRoundTrip == InitExtract /\ [][NextRoundTrip]_vars

(***************************************************************************)
(* The claims.                                                             *)
(***************************************************************************)

\* a value is neither empty nor whitespace-only and carries no surrounding
\* whitespace
Normalized(value) == value # <<>> /\ TrimSpace(value) = value

AllNormalized(params) ==
    \A k \in DOMAIN params : \A n \in 1..Len(params[k]) : Normalized(params[k][n])

\* C4: in the map extractQueryParamsFromHTML returns, in src/main.go and in
\* src/unnamed/part_000, no value is empty or whitespace-only and every value
\* is stored trimmed ("FUZZ" standing for a blank one).
C4_NoBlankValue ==
    extracted.done =>
        /\ AllNormalized(extracted.main)
        /\ ~extracted.variant.panic => AllNormalized(extracted.variant.params)

\* the pipeline is over: main is past wg.Wait, or the process has died
Terminated == mainPc = "done" \/ crashed

\* the number of times the rewritten URL of line i was put into the file
WritesOf(i) == Cardinality({k \in 1..Len(file) : file[k].line = i /\ file[k].text # <<"\n">>})

\* the number of lines line i has in the error log
LogLinesOf(i) == Cardinality({k \in 1..Len(errorLog) : errorLog[k].line = i})

\* the number of error lines (not the verbose block) printed for line i
PrintedErrorsOf(i) ==
    Cardinality({k \in 1..Len(console) :
                    console[k].line = i /\ console[k].format # "Extracted parameters from URL %s:"})

\* C1: with N >= 1 workers every input line is enqueued exactly once,
\* received by exactly one worker, fetched at most once, and has reached one
\* of Written, Skipped, Failed when the pipeline is over: none is dropped,
\* none is processed twice.
C1_EachLineExactlyOnce ==
    NumWorkers >= 1 =>
        /\ \A i \in Lines : enq[i] <= 1 /\ rcv[i] <= enq[i] /\ fetches[i] <= rcv[i]
        /\ Terminated =>
              \A i \in Lines : enq[i] = 1 /\ rcv[i] = 1 /\ status[i] \in Terminal

\* the map extraction gives for line i (what Extract computes)
ParamsOf(i) == extractBody(input[i].doc).params

\* line i gets as far as extraction: no request error, the request and the
\* reading of the body succeed
Extractable(i) ==
    /\ requestError(input[i].url) = "none"
    /\ input[i].net = "ok"
    /\ input[i].read = "ok"

\* C5: the output file has exactly one line for each input line that ended
\* Written and none for a line that ended Skipped or Failed; a line whose
\* extracted map is empty ends Skipped: it is never rewritten, nothing is
\* written for it and no failure is reported for it.
C5_OutputOnlyForWritten ==
    /\ \A i \in Lines :
          /\ status[i] = "Written" => WritesOf(i) = 1
          /\ status[i] \in {"Skipped", "Failed"} => WritesOf(i) = 0
    /\ \A i \in Lines :
          (Extractable(i) /\ DOMAIN ParamsOf(i) = {}) =>
              /\ status[i] \notin {"Rewriting", "Written", "Failed"}
              /\ WritesOf(i) = 0
              /\ LogLinesOf(i) = 0
              /\ PrintedErrorsOf(i) = 0
              /\ (Terminated /\ ~crashed) => status[i] = "Skipped"

\* C5 witness: the run is over with one line written and one line skipped
\* for want of parameters
C5_Witness ==
    /\ mainPc = "done"
    /\ \E i, j \in Lines :
          /\ status[i] = "Written" /\ WritesOf(i) = 1
          /\ status[j] = "Skipped" /\ DOMAIN ParamsOf(j) = {}

\* C6: a failure of one URL (proxy, header, request creation, network, body
\* read, URL parse at rewrite time, output write) ends that URL only: the
\* worker is free for the next URL, the process and the other workers go on,
\* and every line has an outcome when main is past wg.Wait.
C6_FailureIsLocal ==
    /\ ~crashed
    /\ \A i \in Lines : status[i] = "Failed" => \A w \in Workers : wline[w] # i
    /\ mainPc = "done" => \A i \in Lines : status[i] \in Terminal

\* C2: with N >= 1 workers and every step of a line's processing ending,
\* main gets past wg.Wait; when it does, every input line has been enqueued,
\* the channel is closed and every worker has returned. The channel is
\* closed once, after the last enqueue, and a worker returns only when the
\* channel is closed and empty.
C2_TerminatesAfterDrain ==
    /\ <>(mainPc = "done")
    /\ [](mainPc = "done" =>
            /\ scanned = Len(input)
            /\ \A i \in Lines : enq[i] = 1
            /\ closed
            /\ \A w \in Workers : wpc[w] = "exit")
    /\ [](closed => mainPc # "scan")
    /\ [][(~closed /\ closed') => (scanned = Len(input) /\ \A i \in Lines : enq[i] = 1)]_vars
    /\ [][closed => (closed' /\ enq' = enq)]_vars
    /\ [][\A w \in Workers :
            (wpc[w] # "exit" /\ wpc'[w] = "exit") => (closed /\ urls = <<>>)]_vars

\* C2 witness: main is past wg.Wait after two lines went through two workers
C2_Witness ==
    /\ mainPc = "done"
    /\ NumWorkers >= 2
    /\ Len(input) >= 2
    /\ \A i \in Lines : enq[i] = 1 /\ rcv[i] = 1

\* the text of the file, and its lines
RECURSIVE FileText(_)
FileText(chunks) ==
    IF chunks = <<>> THEN <<>> ELSE Head(chunks).text \o FileText(Tail(chunks))

RECURSIVE SplitLines(_)
SplitLines(text) ==
    IF text = <<>> THEN <<>>
    ELSE IF Contains(text, "\n")
         THEN <<Cut(text, "\n").before>> \o SplitLines(Cut(text, "\n").after)
    ELSE <<text>>

SeqToBag(seq) ==
    [x \in {seq[k] : k \in 1..Len(seq)} |-> Cardinality({k \in 1..Len(seq) : seq[k] = x})]

\* the line the program is to write for input line i: its own URL with the
\* encoding of the map extracted from its own response as the query
ExpectedLine(i) == modifiedURL(Parse[input[i].url], ParamsOf(i))

\* the input lines that end Written, told from the line and its own answers
ProducingLines ==
    {i \in Lines :
        /\ Extractable(i)
        /\ DOMAIN ParamsOf(i) # {}
        /\ ~Parse[input[i].url].err
        /\ input[i].write = "ok"}

ExpectedOutput ==
    [x \in {ExpectedLine(i) : i \in ProducingLines} |->
        Cardinality({i \in ProducingLines : ExpectedLine(i) = x})]

\* C3: for a given input and given answers per URL, the lines of the output
\* file at the end are, order aside, the same for every worker count and
\* every interleaving: one line per URL that yields parameters, made of that
\* URL and its own response alone.
C3_OutputIndependentOfSchedule ==
    mainPc = "done" => SeqToBag(SplitLines(FileText(file))) = ExpectedOutput

\* C3 witness: two workers wrote two lines in the order opposite to the input
C3_Witness ==
    /\ mainPc = "done"
    /\ NumWorkers >= 2
    /\ Len(file) = 4
    /\ file[1].line = 2
    /\ file[3].line = 1

HasBadHeader == firstBadHeader(cfg.headers) # <<>>

\* C7 (as claimed): with a custom header without a colon, every URL fails
\* with the invalid-header-format error before any request is sent, and
\* nothing is extracted or written for it.
C7_HeaderErrorAlways ==
    HasBadHeader =>
        \A i \in Lines :
            status[i] \in Terminal =>
                /\ status[i] = "Failed"
                /\ reason[i] = "header"
                /\ fetches[i] = 0
                /\ WritesOf(i) = 0

\* C7 (amended): with a custom header without a colon, every URL fails before
\* any request is sent, and nothing is extracted or written for it; the
\* error is the invalid-header-format error when the proxy URL and the
\* request URL parse, and the proxy or request-creation error, which are
\* found first, when they do not.
C7_NoRequestWithBadHeader ==
    HasBadHeader =>
        \A i \in Lines :
            /\ fetches[i] = 0
            /\ WritesOf(i) = 0
            /\ status[i] \in {"Unread", "Queued", "Fetching", "Failed"}
            /\ status[i] = "Failed" =>
                  reason[i] = IF cfg.proxy # <<>> /\ Parse[cfg.proxy].err THEN "proxy"
                              ELSE IF Parse[FinalURL(input[i].url)].err THEN "request"
                              ELSE "header"

\* C7 witness: a line has failed on the header, with no request sent
C7_Witness ==
    /\ HasBadHeader
    /\ \E i \in Lines : status[i] = "Failed" /\ reason[i] = "header" /\ fetches[i] = 0

\* C8: with quiet off, a line that ends Failed has exactly one line in the
\* error log and a line that ends Written or Skipped has none; with quiet on
\* the error log stays empty.
C8_OneLogLinePerFailure ==
    \A i \in Lines :
        status[i] \in Terminal =>
            LogLinesOf(i) = IF ~cfg.quiet /\ status[i] = "Failed" THEN 1 ELSE 0

HasSuffix(s, suffix) ==
    Len(s) >= Len(suffix) /\ SubSeq(s, Len(s) - Len(suffix) + 1, Len(s)) = suffix

\* the printed line shows the URL of the input line it is about
NamesURL(entry) ==
    \E m \in 1..Len(entry.mentions) : HasSuffix(entry.mentions[m], input[entry.line].url)

\* C9: every line of the error log names the input URL it is about.
C9_LogNamesURL == \A k \in 1..Len(errorLog) : NamesURL(errorLog[k])

\* C10: at most one worker is inside the write; the file is a sequence of
\* complete lines, each the rewritten URL of one input line followed by its
\* newline (the last one may still lack it while its writer is inside the
\* write); a worker at its request or at reading the body can take its step
\* whatever the other workers do.
C10_WritesSerialized ==
    /\ Cardinality({w \in Workers : wpc[w] = "writing"}) <= 1
    /\ \A k \in 1..Len(file) :
          IF file[k].text = <<"\n">>
          THEN k > 1 /\ file[k - 1].line = file[k].line /\ file[k - 1].text # <<"\n">>
          ELSE /\ file[k].text = ExpectedLine(file[k].line)
               /\ IF k < Len(file)
                  THEN file[k + 1] = [line |-> file[k].line, text |-> <<"\n">>]
                  ELSE \E w \in Workers : wpc[w] = "writing" /\ wline[w] = file[k].line
    /\ \A w \in Workers :
          /\ wpc[w] = "fetch" => ENABLED Fetch(w)
          /\ wpc[w] = "read" => ENABLED ReadBody(w)

\* C10 witness: one worker is inside the write, another is held at its entry
\* and a line is already complete in the file
C10_Witness ==
    \E w1, w2 \in Workers :
        /\ wpc[w1] = "writing"
        /\ wpc[w2] = "write"

\* the values a map holds for a key (none when the key is absent)
valuesOfKey(m, k) == IF k \in DOMAIN m THEN m[k] ELSE <<>>

\* the values the query string of a URL attribute holds for key k
queryValuesOf(e, attr, k) ==
    IF Attr(e, attr).exists /\ ~Parse[Attr(e, attr).val].err
    THEN valuesOfKey(Query(Parse[Attr(e, attr).val]), k)
    ELSE <<>>

\* what one element offers for key k in src/main.go: its name/value pair,
\* then its href, then its action
discoveredIn(e, k) ==
    (IF Attr(e, "name").exists /\ Attr(e, "name").val = k
     THEN <<AttrOr(e, "value", FUZZ)>> ELSE <<>>)
    \o queryValuesOf(e, "href", k)
    \o queryValuesOf(e, "action", k)

\* what one element offers for key k in src/unnamed/part_000: its name/value
\* pair (a non-empty name), then its href, then its src, blank values as "FUZZ"
discoveredInVariant(e, k) ==
    (IF AttrOr(e, "name", <<>>) # <<>> /\ AttrOr(e, "name", <<>>) = k
     THEN <<AttrOr(e, "value", <<>>)>> ELSE <<>>)
    \o queryValuesOf(e, "href", k)
    \o queryValuesOf(e, "src", k)

\* everything the selected elements of a document offer for key k, in
\* document order
RECURSIVE discovered(_, _)
discovered(elems, k) ==
    IF elems = <<>> THEN <<>>
    ELSE (IF Head(elems).tag \in MainSelector THEN discoveredIn(Head(elems), k) ELSE <<>>)
         \o discovered(Tail(elems), k)

RECURSIVE discoveredVariant(_, _)
discoveredVariant(elems, k) ==
    IF elems = <<>> THEN <<>>
    ELSE (IF Head(elems).tag \in VariantSelector
          THEN discoveredInVariant(Head(elems), k) ELSE <<>>)
         \o discoveredVariant(Tail(elems), k)

\* the keys that occur in the sample elements, and one that does not
CandidateKeys == {<<>>, <<"q">>, <<"x">>, <<"d">>, <<"i">>, <<"s">>, <<"z">>}

\* C11: the map extractQueryParamsFromHTML returns holds, for every key, all
\* the values the selected elements offer for it (name/value pair, href
\* query, action query; href and src in src/unnamed/part_000), in document
\* order: a later value is appended, none is overwritten or dropped.
C11_MergeAppends ==
    extracted.done =>
        /\ DOMAIN extracted.main \subseteq CandidateKeys
        /\ \A k \in CandidateKeys :
              valuesOfKey(extracted.main, k) =
                  IF html.parseErr THEN <<>> ELSE discovered(html.elems, k)
        /\ ~extracted.variant.panic =>
              /\ DOMAIN extracted.variant.params \subseteq CandidateKeys
              /\ \A k \in CandidateKeys :
                    valuesOfKey(extracted.variant.params, k) =
                        IF html.parseErr THEN <<>>
                        ELSE [n \in 1..Len(discoveredVariant(html.elems, k)) |->
                                 fuzzIfBlank(discoveredVariant(html.elems, k)[n])]

\* C11 witness: an input named q, then an element with name q, value 5 and
\* href /s?q=1: the key q holds the three values in that order
C11_Witness ==
    /\ extracted.done
    /\ html.elems = <<ElInputQ, ElBoth>>
    /\ extracted.main[<<"q">>] = <<FUZZ, <<"5">>, <<"1">>>>
    /\ extracted.variant.params[<<"q">>] = <<FUZZ, <<"5">>, <<"1">>>>

\* url.Parse on a text of any kind (Parse is its table over URLTexts)
parseText(t) == parseFrag(Cut(t, "#"))

\* the text of a URL up to its query and fragment
beforeQuery(u) == Cut(Cut(u, "#").before, "?").before

\* the pieces of a text between the separators
RECURSIVE SplitAll(_, _)
SplitAll(s, c) ==
    IF Contains(s, c) THEN <<Cut(s, c).before>> \o SplitAll(Cut(s, c).after, c)
    ELSE <<s>>

RECURSIVE SumLens(_, _)
SumLens(m, keys) ==
    IF keys = {} THEN 0
    ELSE LET k == CHOOSE x \in keys : TRUE
         IN  Len(m[k]) + SumLens(m, keys \ {k})

\* the query string holds one key=value piece per value, the keys in
\* ascending order
WellEncoded(query, P) ==
    LET pieces == SplitAll(query, "&")
    IN  /\ Len(pieces) = SumLens(P, DOMAIN P)
        /\ \A n \in 1..Len(pieces) : Cut(pieces[n], "=").found
        /\ \A n \in 1..(Len(pieces) - 1) :
              ~StrLess(Cut(pieces[n + 1], "=").before, Cut(pieces[n], "=").before)

\* the line written for input URL u and extracted map P keeps u's scheme,
\* host, path and fragment and has the encoding of P, and nothing else, as
\* its query
Reframed(out, u, P) ==
    /\ DOMAIN P # {}
    /\ ~parseText(out).err
    /\ parseText(out).scheme = parseText(u).scheme
    /\ parseText(out).host = parseText(u).host
    /\ parseText(out).path = parseText(u).path
    /\ parseText(out).opaque = parseText(u).opaque
    /\ parseText(out).fragment = parseText(u).fragment
    /\ parseText(out).rawQuery = Encode[P]
    /\ WellEncoded(parseText(out).rawQuery, P)
    /\ out = beforeQuery(u) \o <<"?">> \o Encode[P]
             \o (IF Cut(u, "#").after # <<>> THEN <<"#">> \o Cut(u, "#").after ELSE <<>>)

ExampleURL == <<"h", "t", "t", "p", ":", "/", "/", "h", "/", "p", "a", "g", "e">>

ExampleLine == <<"h", "t", "t", "p", ":", "/", "/", "h", "/", "p", "a", "g", "e", "?", "q", "=", "F", "U", "Z", "Z", "&", "x", "=", "1">>

MalformedLink(e) ==
    \E a \in {"href", "action", "src"} : Attr(e, a).exists /\ Parse[Attr(e, a).val].err

WellFormedLink(e) == ~MalformedLink(e)

\* the document without the elements that carry a malformed URL
withoutMalformed(doc) == [doc EXCEPT !.elems = SelectSeq(@, WellFormedLink)]

\* C13: an element with a malformed href or action is skipped without
\* failing: extraction goes on and returns what the other elements of the
\* document give, in src/main.go and in src/unnamed/part_000, and nothing is
\* aborted.
C13_MalformedLinkSkipped ==
    extracted.done =>
        /\ extracted.main = extractQueryParamsFromHTML[withoutMalformed(html)]
        /\ ~extracted.variant.panic
        /\ extracted.variant = extractQueryParamsFromHTMLVariant[withoutMalformed(html)]

\* C13, for src/main.go alone
C13_MainSkipsMalformedLink ==
    extracted.done => extracted.main = extractQueryParamsFromHTML[withoutMalformed(html)]

(***************************************************************************)
(* C14: redirects.                                                         *)
(***************************************************************************)

\* the body of the first response the servers give for a line
firstBody(l) == IF l.redirects > 0 THEN l.redirectDoc ELSE l.doc

\* line i was answered with n HTTP requests and the body doc, and doc is
\* what its worker's extraction was given
AnsweredWith(i, n, doc) ==
    /\ resp[i].requests = n
    /\ ~resp[i].err
    /\ resp[i].body = doc
    /\ \A w \in Workers :
           (wline[w] = i /\ wpc[w] = "rewrite") => wparams[w] = extractBody(doc).params

\* without -r: one request, the first response is the one extracted
StopsAtFirstResponse(i) ==
    ~cfg.followRedirects => AnsweredWith(i, 1, firstBody(input[i]))

\* C14 as stated, for the lines whose request went out and met no transport
\* error: without followRedirects exactly one HTTP request is issued and the
\* body of the first (redirect) response goes to extraction; with
\* followRedirects every redirect of the chain is followed and the body of
\* the final response goes to extraction
C14_ChainAlwaysFollowed ==
    \A i \in Lines :
        (fetches[i] > 0 /\ input[i].net = "ok") =>
            /\ StopsAtFirstResponse(i)
            /\ cfg.followRedirects =>
                   AnsweredWith(i, input[i].redirects + 1, input[i].doc)

\* C14, amended: as above, but with followRedirects the chain is followed
\* only as far as the client's default policy goes: a chain that needs more
\* than ten requests is cut after the tenth and the URL fails with the
\* request error, nothing being extracted
C14_RedirectPolicy ==
    \A i \in Lines :
        (fetches[i] > 0 /\ input[i].net = "ok") =>
            /\ StopsAtFirstResponse(i)
            /\ (cfg.followRedirects /\ input[i].redirects < StoppedAfter) =>
                   AnsweredWith(i, input[i].redirects + 1, input[i].doc)
            /\ (cfg.followRedirects /\ input[i].redirects >= StoppedAfter) =>
                   /\ resp[i].requests = StoppedAfter
                   /\ resp[i].err
                   /\ status[i] = "Failed"
                   /\ reason[i] = "network"

\* a redirected line was written from the body of its redirect response, and
\* another run followed a chain to its final response
C14_Witness ==
    \E i \in Lines :
        /\ input[i].redirects > 0
        /\ status[i] = "Written"
        /\ \/ ~cfg.followRedirects /\ resp[i].body = input[i].redirectDoc
                 /\ resp[i].requests = 1
           \/ cfg.followRedirects /\ resp[i].body = input[i].doc
                 /\ resp[i].requests = 3

(***************************************************************************)
(* C15: the size of the worker pool.                                       *)
(***************************************************************************)

\* the lines a worker is busy with
InProcess == {i \in Lines : status[i] \in {"Fetching", "Extracting", "Rewriting"}}

\* C15: exactly N workers are started, N being the concurrency the operator
\* configured with -c, and at most N URLs are Fetching, Extracting or
\* Rewriting at once
C15_WorkersAsConfigured ==
    /\ DOMAIN wpc = 1..cfg.concurrency
    /\ Cardinality(InProcess) <= cfg.concurrency

\* C15 read for src/main.go alone, which parses the flags first: it also
\* never has more lines in process than workers
C15_MainWorkersAsConfigured ==
    cfg.variant = "main" =>
        /\ C15_WorkersAsConfigured
        /\ Cardinality(InProcess) <= Cardinality({w \in Workers : wline[w] # 0})

(***************************************************************************)
(* C16: verbose mode.                                                      *)
(***************************************************************************)

\* the verbose blocks printed for line i
VerboseBlocksOf(i) ==
    {k \in 1..Len(console) :
        console[k].line = i /\ console[k].format = "Extracted parameters from URL %s:"}

\* the URL of line i, then each name of map m with its values joined by ", "
IsVerboseBlock(entry, i, m) ==
    /\ entry.mentions = <<input[i].url>>
    /\ entry.params = [k \in DOMAIN m |-> JoinWith(m[k], <<",", " ">>)]

\* C16: in verbose mode every URL whose processing is over and whose
\* extracted map is not empty has its block on the console (the URL, then
\* each name with its comma-joined values), whether or not its line could be
\* written to the output file; the file holds what it holds without verbose;
\* with verbose off no such block is printed
C16_VerboseIndependentOfFile ==
    /\ \A i \in Lines :
          (cfg.verbose /\ status[i] \in Terminal /\ Extractable(i)
             /\ DOMAIN ParamsOf(i) # {}) =>
              \E k \in VerboseBlocksOf(i) : IsVerboseBlock(console[k], i, ParamsOf(i))
    /\ \A i \in Lines :
          status[i] = "Written" =>
              \E k \in 1..Len(file) : file[k] = [line |-> i, text |-> ExpectedLine(i)]
    /\ ~cfg.verbose => \A i \in Lines : VerboseBlocksOf(i) = {}

\* C16 read for src/unnamed/part_000 alone, where the verbose block follows
\* the write whatever its result
C16_VariantVerboseIndependentOfFile ==
    cfg.variant = "part" => C16_VerboseIndependentOfFile

(***************************************************************************)
(* C17: the query string round trip.                                       *)
(***************************************************************************)

\* C17: the map parsed back from the encoded query string is the map that
\* was encoded: the same keys, and for each key the same values in the same
\* order
C17_EncodeParseRoundTrip ==
    trip.parsed =>
        /\ DOMAIN trip.back = DOMAIN trip.params
        /\ \A k \in DOMAIN trip.params : trip.back[k] = trip.params[k]

\* the example of the specification, {q: [FUZZ, 1], id: [5]}, has made the
\* trip through "id=5&q=FUZZ&q=1"
C17_Witness ==
    /\ trip.parsed
    /\ trip.params = (<<"q">> :> <<FUZZ, <<"1">>>>) @@ (<<"i", "d">> :> <<<<"5">>>>)
    /\ trip.query = <<"i", "d", "=", "5", "&", "q", "=", "F", "U", "Z", "Z",
                      "&", "q", "=", "1">>

(***************************************************************************)
(* C18: the states a URL goes through.                                     *)
(***************************************************************************)

\* the worker that holds line i is at that place
WorkerAt(i, place) == \E w \in Workers : wline[w] = i /\ wpc[w] = place

\* one step of the program seen from line i: the line stays where it is or
\* moves along Queued, Fetching, Extracting, Rewriting to its outcome
LineStep(i) ==
    \/ status'[i] = status[i] /\ (status[i] \in Terminal => reason'[i] = reason[i])
    \/ status[i] = "Unread" /\ status'[i] = "Queued"
    \/ status[i] = "Queued" /\ status'[i] = "Fetching"
    \/ /\ status[i] = "Fetching" /\ status'[i] = "Extracting"
       /\ WorkerAt(i, "read")
       /\ fetches[i] = 1 /\ ~resp[i].err
       /\ input[i].read = "ok"
    \/ /\ status[i] = "Fetching" /\ status'[i] = "Failed"
       /\ reason'[i] \in {"proxy", "request", "header", "network", "read"}
    \/ /\ status[i] = "Extracting" /\ status'[i] = "Rewriting"
       /\ DOMAIN extractBody(resp[i].body).params # {}
    \/ /\ status[i] = "Extracting" /\ status'[i] = "Skipped"
       /\ DOMAIN extractBody(resp[i].body).params = {}
       /\ reason'[i] = "none"
    \/ /\ status[i] = "Rewriting" /\ status'[i] = "Written"
       /\ WorkerAt(i, "writing")
       /\ input[i].write = "ok"
       /\ file' = Append(file, [line |-> i, text |-> <<"\n">>])
       /\ \E k \in 1..Len(file) : file[k].line = i /\ file[k].text # <<"\n">>
       /\ reason'[i] = "none"
    \/ /\ status[i] = "Rewriting" /\ status'[i] = "Failed"
       /\ reason'[i] \in {"parse", "write"}

\* C18: every step of src/main.go moves each URL only along Queued ->
\* Fetching -> Extracting -> Rewriting -> {Written, Skipped, Failed}:
\* Extracting is entered only when the body has been read without error,
\* Written only from Rewriting once the line is in the output file, Skipped
\* only from Extracting with an empty map, Failed only from Fetching or
\* Rewriting, and a URL that is Written, Skipped or Failed stays so
C18_StatesInOrder == [][\A i \in Lines : LineStep(i)]_vars

\* a run that ended with one URL written and another failed while its body
\* was read
C18_Witness ==
    /\ mainPc = "done"
    /\ \E i, j \in Lines :
          /\ status[i] = "Written"
          /\ status[j] = "Failed" /\ reason[j] = "read"

(***************************************************************************)
(* C19: the queue.                                                         *)
(***************************************************************************)

\* worker w can neither receive a URL nor leave its loop
BlockedOnReceive(w) == wpc[w] = "recv" /\ ~ENABLED Recv(w) /\ ~ENABLED Exit(w)

\* C19: the queue never holds more than N URLs, N being the configured
\* concurrency; while it holds N the producer cannot enqueue (it reads no
\* further line); a worker is blocked on receive only while the queue is
\* empty and not closed
C19_QueueBounded ==
    /\ Len(urls) <= cfg.concurrency
    /\ (Len(urls) = cfg.concurrency /\ mainPc = "scan") => ~ENABLED Send
    /\ ~crashed =>
          \A w \in Workers : BlockedOnReceive(w) <=> (wpc[w] = "recv" /\ urls = <<>> /\ ~closed)

\* C19 read for src/main.go alone, whose channel is made after flag.Parse
C19_MainQueueBounded == cfg.variant = "main" => C19_QueueBounded

(***************************************************************************)
(* C20: no worker.                                                         *)
(***************************************************************************)

\* C20: src/main.go with -c 0 and at least one input line has no worker and
\* a channel of capacity 0: the first send never completes, so no line is
\* ever enqueued, received or processed, the channel is never closed and
\* main never gets to wg.Wait or past it
C20_NoWorkerNoProgress ==
    (cfg.variant = "main" /\ cfg.concurrency = 0 /\ Len(input) >= 1) =>
        /\ Workers = {}
        /\ ~ENABLED Send
        /\ scanned = 0 /\ urls = <<>>
        /\ \A i \in Lines : status[i] = "Unread" /\ enq[i] = 0 /\ fetches[i] = 0
        /\ file = <<>>
        /\ ~closed
        /\ mainPc = "scan"

\* main stands at its first send with nobody to receive: no step is possible
C20_Witness ==
    /\ cfg.variant = "main" /\ cfg.concurrency = 0
    /\ Len(input) = MaxLines
    /\ mainPc = "scan" /\ scanned = 0
    /\ ~ENABLED Next

====
